---- MODULE Spec2Model ----
(***************************************************************************)
(* Fulfillment saga of the housika marketplace backend: the booking        *)
(* handler (POST /bookings), property creation (POST /properties), which   *)
(* shares the payments store with it, and the receipt handler              *)
(* (POST /receipts) with its upload retry and amount normalization, and    *)
(* the paired writes of the chat handlers (POST /chats and                 *)
(* POST /chats/:id/messages).  Every `await` of a handler is a point where *)
(* another request may run, so each handler is a process with a program    *)
(* counter and one action per awaited step.                                *)
(***************************************************************************)
EXTENDS Integers, FiniteSets, Sequences, TLC

\* ------------------------------------------------------------------ bounds
NumBookingReqs == 2
NumPropertyReqs == 1
NumReceiptReqs == 2
MaxRooms == 1
NumChatReqs == 1
NumMsgReqs == 1
MaxNumericLen == 3
NumUpdateReqs == 1
NumCallers == 2

\* --------------------------------------------------------- program constants
UPLOAD_RETRY_ATTEMPTS == 3

BReqs == 1..NumBookingReqs
PReqs == 1..NumPropertyReqs
RReqs == 1..NumReceiptReqs

\* Payment references a client may send, and what the gateway answers for each:
\* PAY-1 is a paid transaction, PAY-2 an abandoned one, PAY-X is unknown to it.
Refs == {"PAY-1", "PAY-2", "PAY-X"}

\* paystackFetch: a 2xx answer carries data.status; a non-2xx answer throws the
\* gateway's message ("Transaction reference not found" for an unknown one).
GatewayStatus(ref) ==
    CASE ref = "PAY-1" -> "success"
      [] ref = "PAY-2" -> "abandoned"
      [] OTHER -> "unknown"

\* Room ids a client may send: the rooms property request p can create, and one
\* id that no property owns.
RoomIds == (PReqs \X (1..MaxRooms)) \cup {<<0, 0>>}

IdempotencyKeys == {"K1", "K2"}
NoKey == "null"

CReqs == 1..NumChatReqs
MReqs == 1..NumMsgReqs
UReqs == 1..NumUpdateReqs
Callers == 1..NumCallers

\* The chat a database may already hold when the handlers start, and the ids
\* a client may put in /chats/:id/messages: that chat's and one of no chat.
SeedChat == [id |-> <<"chat", 0>>, tenantId |-> "t1", participants |-> {"u1"}]
ChatIds == {<<"chat", 0>>, <<"chat", 9>>}

\* What the document store does to the writes of one request: it serves them
\* all, or it rejects the named ones.
CreatePlans == {"healthy", "chats.insert", "messages.insert",
                "messages.insert+chats.delete"}
MsgPlans == {"healthy", "messages.insert", "chats.update",
             "chats.update+messages.delete"}

VARIABLES
    \* document store
    payments,      \* set of [reference, status, by]
    properties,    \* set of [property_id, unit_available, active]
    rooms,         \* set of [room_id, property_id, active]
    bookings,      \* set of booking documents, see SeedBooking for the fields
    receipts,      \* set of [receipt_id, idempotency_key, public_url, amount_*]
    \* object storage and mail
    objects,       \* keys of the objects uploaded to R2
    mails,         \* mail sends attempted: <<handler, request, kind>>
    gwCalls,       \* verifyPayment calls made: <<handler, request>>
    \* POST /bookings, one run per request
    bpc,           \* where the run stands
    bref,          \* body.payment_reference
    isCEO,         \* userPayload.role = 'ceo'
    paymentData,   \* verified.data.status, "null" before
    bres,          \* the error code answered, or SUCCESS
    bfault,        \* the local payment lookup failed (and was ignored)
    btrace,        \* the saga states the run has entered, in order
    bretry,        \* the run resends a reference whose earlier run failed after VERIFIED
    \* POST /properties
    ppc, pref, pnrooms, pceo, ppaid, pres,
    \* POST /receipts
    rpc, rkey, attempt, rres, rresp, rprior, rdid,
    rbody,             \* the amount fields of the request body
    normalizedAmount,  \* what parseAndNormalizeAmount made of them
    \* chats and messages collections
    chats,         \* set of [id, tenantId, participants]
    messages,      \* set of [id, chatId]
    \* POST /chats
    cpc,           \* where the run stands
    cres,          \* the error code answered, or SUCCESS
    cinit,         \* body.initialMessage is supplied
    cplan,         \* what the store does to this request's writes
    \* POST /chats/:id/messages
    mpc, mres,
    mchat,         \* the :id path parameter
    mwho,          \* the caller: a participant, a stranger, or of another tenant
    mplan,
    \* PUT /bookings/:id
    upc, ures,
    uid,           \* the :id path parameter
    uactor,        \* actor.userId of the token
    updatePayload, \* the fields the patch will carry
    \* services/astra.js: module state and the getCollection calls
    credentials,   \* ASTRA_DB_ID, ASTRA_DB_REGION and the token are all set
    setupError,    \* TRUE once an Error has been stored
    setupPromise,  \* "undefined", "pending" or "fulfilled"
    cache,         \* names whose handle is in the Map
    gpc, gname,
    gres           \* what the call gave its caller: a handle or the error thrown

stores == <<payments, properties, rooms, bookings, receipts>>
effects == <<objects, mails, gwCalls>>
bvars == <<bpc, bref, isCEO, paymentData, bres, bfault, btrace, bretry>>
pvars == <<ppc, pref, pnrooms, pceo, ppaid, pres>>
rvars == <<rpc, rkey, attempt, rres, rresp, rprior, rdid, rbody, normalizedAmount>>
cvars == <<cpc, cres, cinit, cplan>>
mvars == <<mpc, mres, mchat, mwho, mplan>>
kvars == <<chats, messages, cvars, mvars>>
uvars == <<upc, ures, uid, uactor, updatePayload>>
avars == <<credentials, setupError, setupPromise, cache, gpc, gname, gres>>
xvars == <<uvars, avars>>
vars == <<stores, effects, bvars, pvars, rvars, kvars, xvars>>

\* ------------------------------------------------------ amount normalization
\* Strings are sequences of one-character strings; a JSON value of a request
\* body is a record tagged "undefined", "string" or "number".  A number is its
\* sign, the decimal digits of its integer part and whether it has a nonzero
\* fraction.
SUPPORTED_CURRENCIES == {<<"K","E","S">>, <<"U","S","D">>, <<"E","U","R">>, <<"G","B","P">>}

DigitChars == <<"0", "1", "2", "3", "4", "5", "6", "7", "8", "9">>
LowerChars == <<"a","b","c","d","e","f","g","h","i","j","k","l","m",
                "n","o","p","q","r","s","t","u","v","w","x","y","z">>
UpperChars == <<"A","B","C","D","E","F","G","H","I","J","K","L","M",
                "N","O","P","Q","R","S","T","U","V","W","X","Y","Z">>
Range(seq) == {seq[i] : i \in DOMAIN seq}
IsDigit(ch) == ch \in Range(DigitChars)
IsLetter(ch) == ch \in Range(LowerChars) \cup Range(UpperChars)
DigitValue(ch) == (CHOOSE i \in DOMAIN DigitChars : DigitChars[i] = ch) - 1

\* String.prototype.toUpperCase
toUpperCase(str) ==
    [i \in DOMAIN str |->
        IF str[i] \in Range(LowerChars)
        THEN UpperChars[CHOOSE j \in DOMAIN LowerChars : LowerChars[j] = str[i]]
        ELSE str[i]]

\* String.prototype.trim (the only white space in play is the blank)
RECURSIVE trimStart(_)
trimStart(str) ==
    IF str # <<>> /\ Head(str) = " " THEN trimStart(Tail(str)) ELSE str

RECURSIVE trimEnd(_)
trimEnd(str) ==
    IF str # <<>> /\ str[Len(str)] = " "
    THEN trimEnd(SubSeq(str, 1, Len(str) - 1)) ELSE str

trim(str) == trimEnd(trimStart(str))

\* numeric.match(/^([A-Za-z]{3})\s*(.+)$/): three letters, then at least one
\* more character once the white space after them is skipped.  On a trimmed
\* string the rest never consists of white space alone.
tokenMatch(numeric) ==
    /\ Len(numeric) >= 4
    /\ \A i \in 1..3 : IsLetter(numeric[i])

tokenCurrency(numeric) == toUpperCase(SubSeq(numeric, 1, 3))
tokenRest(numeric) == trimStart(SubSeq(numeric, 4, Len(numeric)))

\* numeric.replace(/[, ]+/g, '').replace(/[^\d.]/g, ''): whatever is neither a
\* digit nor a dot is dropped, letters and signs as well as separators.
stripNonNumeric(numeric) ==
    SelectSeq(numeric, LAMBDA ch : IsDigit(ch) \/ ch = ".")

\* /^\d+(\.\d+)?$/ on a string of digits and dots
isDecimal(numeric) ==
    LET dots == {i \in DOMAIN numeric : numeric[i] = "."} IN
    /\ numeric # <<>>
    /\ \/ dots = {}
       \/ \E i \in dots : dots = {i} /\ 1 < i /\ i < Len(numeric)

\* numeric.split('.'): parts[0], and (parts[1] || '').padEnd(2, '0').slice(0, 2)
integerPart(numeric) ==
    LET dots == {i \in DOMAIN numeric : numeric[i] = "."} IN
    IF dots = {} THEN numeric
    ELSE SubSeq(numeric, 1, (CHOOSE i \in dots : TRUE) - 1)

fractionPart(numeric) ==
    LET dots == {i \in DOMAIN numeric : numeric[i] = "."}
        frac == IF dots = {} THEN <<>>
                ELSE SubSeq(numeric, (CHOOSE i \in dots : TRUE) + 1, Len(numeric))
    IN  SubSeq(frac \o <<"0", "0">>, 1, 2)

\* Natural numbers are kept as their decimal digits, most significant first
\* and without leading zeros, so that values beyond 2^53 can be told apart.
RECURSIVE Canonical(_)
Canonical(digits) ==
    IF Len(digits) > 1 /\ Head(digits) = 0 THEN Canonical(Tail(digits)) ELSE digits

DigitsOf(str) == Canonical([i \in DOMAIN str |-> DigitValue(str[i])])

RECURSIVE LexLeq(_, _)
LexLeq(a, b) ==
    IF a = <<>> THEN TRUE
    ELSE IF Head(a) # Head(b) THEN Head(a) < Head(b)
    ELSE LexLeq(Tail(a), Tail(b))

NatLeq(a, b) == Len(a) < Len(b) \/ (Len(a) = Len(b) /\ LexLeq(a, b))

RECURSIVE Successor(_)
Successor(digits) ==
    IF digits = <<>> THEN <<1>>
    ELSE IF digits[Len(digits)] < 9
         THEN [digits EXCEPT ![Len(digits)] = @ + 1]
         ELSE Successor(SubSeq(digits, 1, Len(digits) - 1)) \o <<0>>

\* 2^53.  A JavaScript Number holds every integer up to 2^53; from there to
\* 2^54 it holds the even ones, and an odd result is rounded to the neighbour
\* that is a multiple of 4 (round half to even).  The amounts in play stay
\* below 2^54.
Two53 == <<9,0,0,7,1,9,9,2,5,4,7,4,0,9,9,2>>

toNumber(digits) ==
    LET n == Len(digits)
        lastTwo == 10 * digits[n - 1] + digits[n]
    IN  IF NatLeq(digits, Two53) \/ digits[n] % 2 = 0 THEN digits
        ELSE IF (lastTwo + 1) % 4 = 0 THEN Successor(digits)
        ELSE [digits EXCEPT ![n] = @ - 1]

\* Number(integerPart) * 100 + Number(fractionPart).  Below 2^54 the product
\* is exact (a multiple of 100 is even) and only the sum is rounded.
amount_value_int(integer, fraction) ==
    toNumber(DigitsOf(integer \o fraction))

\* new Intl.NumberFormat('en-US', {style: 'currency', currency}).format(v / 100):
\* the currency's symbol, or its code and a no-break space where en-US has no
\* symbol for it, the integer part in groups of three and two fraction
\* digits.  (v / 100 is itself a Number; its two fraction digits are those of
\* v for every v below 2^53.)
currencySymbol(currency) ==
    CASE currency = <<"U","S","D">> -> <<"$">>
      [] currency = <<"E","U","R">> -> <<"U+20AC">>
      [] currency = <<"G","B","P">> -> <<"U+00A3">>
      [] OTHER -> currency \o <<"U+00A0">>

RECURSIVE grouped(_)
grouped(chars) ==
    IF Len(chars) <= 3 THEN chars
    ELSE grouped(SubSeq(chars, 1, Len(chars) - 3)) \o <<",">>
             \o SubSeq(chars, Len(chars) - 2, Len(chars))

format(currency, value) ==
    LET padded == IF Len(value) >= 3 THEN value
                  ELSE SubSeq(<<0, 0, 0>>, 1, 3 - Len(value)) \o value
        chars == [i \in DOMAIN padded |-> DigitChars[padded[i] + 1]]
        n == Len(chars)
    IN  currencySymbol(currency) \o grouped(SubSeq(chars, 1, n - 2))
            \o <<".">> \o SubSeq(chars, n - 1, n)

Undefined == [t |-> "undefined"]
String(str) == [t |-> "string", s |-> str]
Number(neg, digits, fractional) ==
    [t |-> "number", neg |-> neg, digits |-> digits, fractional |-> fractional]

\* What parseAndNormalizeAmount returns or throws.
Normalized(value, currency) ==
    [ok |-> TRUE, message |-> "", amount_value |-> value,
     amount_currency |-> currency, amount_display |-> format(currency, value)]
Thrown(message) ==
    [ok |-> FALSE, message |-> message, amount_value |-> <<>>,
     amount_currency |-> <<>>, amount_display |-> <<>>]

\* body.amount_currency || null
currencyHintOf(body) ==
    IF body.amount_currency.t = "string" /\ body.amount_currency.s # <<>>
    THEN body.amount_currency ELSE Undefined

\* An explicit path that takes amount_value for major units and scales it.
explicitAmountScaled(body) ==
    IF body.amount_currency.t # "string" \/ body.amount_currency.s = <<>>
    THEN Thrown("amount_currency is required when amount_value is provided")
    ELSE LET currency == toUpperCase(body.amount_currency.s) IN
         IF currency \notin SUPPORTED_CURRENCIES THEN Thrown("Unsupported currency")
         ELSE IF \/ body.amount_value.t # "number"
                 \/ body.amount_value.fractional
                 \/ body.amount_value.neg
              THEN Thrown("amount_value must be a non-negative integer")
              ELSE Normalized(Canonical(body.amount_value.digits \o <<0, 0>>), currency)

\* The explicit path: amount_value with amount_currency.
explicitAmount(body) ==
    IF body.amount_currency.t # "string" \/ body.amount_currency.s = <<>>
    THEN Thrown("amount_currency is required when amount_value is provided")
    ELSE LET currency == toUpperCase(body.amount_currency.s) IN
         IF currency \notin SUPPORTED_CURRENCIES THEN Thrown("Unsupported currency")
         ELSE IF \/ body.amount_value.t # "number"
                 \/ body.amount_value.fractional
                 \/ body.amount_value.neg
              THEN Thrown("amount_value must be a non-negative integer")
              ELSE Normalized(body.amount_value.digits, currency)

\* The legacy path: `amount` as a string, with or without a currency token.
legacyAmount(body, currencyHint) ==
    IF body.amount.t = "undefined" \/ body.amount.s = <<>>
    THEN Thrown("Missing amount_value or legacy amount input")
    ELSE LET trimmed == trim(body.amount.s)
             matched == tokenMatch(trimmed)
         IN  IF ~matched /\ currencyHint.t = "undefined"
             THEN Thrown("Currency not provided")
             ELSE LET currency == IF matched THEN tokenCurrency(trimmed)
                                  ELSE toUpperCase(currencyHint.s)
                      numeric == stripNonNumeric(IF matched THEN tokenRest(trimmed)
                                                 ELSE trimmed)
                  IN  IF currency \notin SUPPORTED_CURRENCIES
                      THEN Thrown("Unsupported currency")
                      ELSE IF ~isDecimal(numeric) THEN Thrown("Invalid numeric amount")
                      ELSE Normalized(amount_value_int(integerPart(numeric),
                                                       fractionPart(numeric)),
                                      currency)

parseAndNormalizeAmount(body, currencyHint) ==
    IF body.amount_value.t # "undefined" THEN explicitAmount(body)
    ELSE legacyAmount(body, currencyHint)

\* The amount fields of the bodies clients send.  Legacy strings: a currency
\* token or none, then every string of up to MaxNumericLen characters drawn
\* from digits, separators, a letter and a sign; and a few longer ones.
Body(amount_value, amount_currency, amount) ==
    [amount_value |-> amount_value, amount_currency |-> amount_currency,
     amount |-> amount]

NumericAlphabet == {"1", "5", ".", ",", "x", "-"}
NumericStrings == UNION {[1..n -> NumericAlphabet] : n \in 1..MaxNumericLen}
LegacyPrefixes == {<<"K","E","S"," ">>, <<"X","Y","Z"," ">>, <<>>}
CurrencyFields == {Undefined, String(<<"u","s","d">>), String(<<"X","Y","Z">>)}

SampleBody ==
    Body(Undefined, Undefined,
         String(<<"K","E","S"," ","2",",","5","0","0",".","0","0">>))

LongStrings ==
    { <<"K","E","S"," ","2",",","5","0","0",".","0","0">>,
      <<"a","b","c">>,
      <<" ","k","e","s","1","2",".","3","4","5"," ">>,
      <<"K","E","S"," ","9","0","0","7","1","9","9","2","5","4","7","4","0","9",".","9","3">>,
      <<"K","E","S"," ","9","0","0","7","1","9","9","2","5","4","7","4","0","9",".","9","2">>,
      <<>> }

LegacyBodies ==
    {Body(Undefined, cur, String(pre \o num)) :
        cur \in CurrencyFields, pre \in LegacyPrefixes, num \in NumericStrings}
    \cup {Body(Undefined, cur, String(str)) :
        cur \in {Undefined, String(<<"u","s","d">>)}, str \in LongStrings}
    \cup {Body(Undefined, Undefined, Undefined)}

ExplicitBodies ==
    {Body(val, cur, Undefined) :
        val \in {Number(FALSE, <<0>>, FALSE), Number(FALSE, <<2,5,0,0,0,0>>, FALSE),
                 Number(FALSE, <<1,2,3,4,5,6,7>>, FALSE),
                 Number(TRUE, <<5>>, FALSE), Number(FALSE, <<2>>, TRUE),
                 String(<<"1","0","0">>)},
        cur \in CurrencyFields \cup {String(<<"K","E","S">>), String(<<"e","u","r">>)}}

AmountBodies == LegacyBodies \cup ExplicitBodies

\* ------------------------------------------------------------ initial state
\* No chat request has started; the chats collection holds `seed`.
ChatsIdle(seed) ==
    /\ chats = seed /\ messages = {}
    /\ cpc = [c \in CReqs |-> "idle"]
    /\ cres = [c \in CReqs |-> "none"]
    /\ cinit = [c \in CReqs |-> FALSE]
    /\ cplan = [c \in CReqs |-> "healthy"]
    /\ mpc = [m \in MReqs |-> "idle"]
    /\ mres = [m \in MReqs |-> "none"]
    /\ mchat = [m \in MReqs |-> <<"chat", 9>>]
    /\ mwho = [m \in MReqs |-> "participant"]
    /\ mplan = [m \in MReqs |-> "healthy"]

\* No update request has started.
UpdatesIdle ==
    /\ upc = [u \in UReqs |-> "idle"]
    /\ ures = [u \in UReqs |-> "none"]
    /\ uid = [u \in UReqs |-> 0]
    /\ uactor = [u \in UReqs |-> "none"]
    /\ updatePayload = [u \in UReqs |-> <<>>]

\* astra.js has just been loaded; env tells whether the three credentials
\* are set.
AstraLoaded(env) ==
    /\ credentials = env
    /\ setupError = FALSE /\ setupPromise = "undefined" /\ cache = {}
    /\ gpc = [g \in Callers |-> "idle"]
    /\ gname = [g \in Callers |-> ""]
    /\ gres = [g \in Callers |-> "none"]

\* No booking, property or receipt request has started; the payments and
\* bookings collections are left to the specification.
NoRequestStarted ==
    /\ properties = {} /\ rooms = {}
    /\ receipts = {}
    /\ objects = {} /\ mails = {} /\ gwCalls = {}
    /\ UpdatesIdle
    /\ bpc = [b \in BReqs |-> "idle"]
    /\ bref = [b \in BReqs |-> "none"]
    /\ isCEO = [b \in BReqs |-> FALSE]
    /\ paymentData = [b \in BReqs |-> "null"]
    /\ bres = [b \in BReqs |-> "none"]
    /\ bfault = [b \in BReqs |-> FALSE]
    /\ btrace = [b \in BReqs |-> <<>>]
    /\ bretry = [b \in BReqs |-> FALSE]
    /\ ppc = [p \in PReqs |-> "idle"]
    /\ pref = [p \in PReqs |-> "none"]
    /\ pnrooms = [p \in PReqs |-> 0]
    /\ pceo = [p \in PReqs |-> FALSE]
    /\ ppaid = [p \in PReqs |-> FALSE]
    /\ pres = [p \in PReqs |-> "none"]
    /\ rpc = [r \in RReqs |-> "idle"]
    /\ rkey = [r \in RReqs |-> NoKey]
    /\ attempt = [r \in RReqs |-> 0]
    /\ rres = [r \in RReqs |-> "none"]
    /\ rresp = [r \in RReqs |-> [receipt_id |-> <<>>, public_url |-> <<>>]]
    /\ rprior = [r \in RReqs |-> {}]
    /\ rdid = [r \in RReqs |-> {}]
    /\ normalizedAmount = [r \in RReqs |-> Thrown("pending")]

Quiescent == NoRequestStarted /\ AstraLoaded(TRUE) /\ payments = {} /\ bookings = {}

Init == Quiescent /\ ChatsIdle({}) /\ rbody = [r \in RReqs |-> SampleBody]

\* ------------------------------------------------------------ POST /bookings
BkFinish(b, code) ==
    /\ bpc' = [bpc EXCEPT ![b] = "done"]
    /\ bres' = [bres EXCEPT ![b] = code]

BkGoto(b, label) ==
    /\ bpc' = [bpc EXCEPT ![b] = label]
    /\ UNCHANGED bres

\* Body and field validation, token, resolved email, then the five
\* getCollection calls; a rejected getCollection lands in the outer catch
\* (BOOKING_CREATION_FAILED) before anything of the request is used.
BkStart(b) ==
    /\ bpc[b] = "idle"
    /\ \E v \in {"ok", "INVALID_BODY", "MISSING_FIELDS", "MISSING_EMAIL",
                 "BOOKING_CREATION_FAILED"} :
        IF v # "ok"
        THEN /\ BkFinish(b, v)
             /\ UNCHANGED <<bref, isCEO, bretry>>
        ELSE \E ref \in Refs, ceo \in BOOLEAN :
             /\ bref' = [bref EXCEPT ![b] = ref]
             /\ isCEO' = [isCEO EXCEPT ![b] = ceo]
             /\ bretry' = [bretry EXCEPT ![b] =
                              \E x \in BReqs : /\ bpc[x] = "done" /\ bref[x] = ref
                                               /\ paymentData[x] = "success"
                                               /\ bres[x] = "BOOKING_CREATION_FAILED"]
             /\ BkGoto(b, IF ceo THEN "resolve" ELSE "check")
    /\ UNCHANGED <<stores, effects, paymentData, bfault, btrace, pvars, rvars, kvars, xvars>>

\* BkCheckUsed without the status test: every request goes on to the gateway.
BkCheckUsedIgnored(b) ==
    /\ bpc[b] = "check"
    /\ BkGoto(b, "verify")
    /\ UNCHANGED <<stores, effects, bref, isCEO, paymentData, bfault, btrace,
                   bretry, pvars, rvars, kvars, xvars>>

\* The local used-check: paymentsCol.find, then the first row's status.  A
\* failed lookup is caught and ignored.
BkCheckUsed(b) ==
    /\ bpc[b] = "check"
    /\ \E ok \in BOOLEAN :
        IF ~ok
        THEN /\ BkGoto(b, "verify")
             /\ bfault' = [bfault EXCEPT ![b] = TRUE]
        ELSE /\ UNCHANGED bfault
             /\ LET rows == {pr \in payments : pr.reference = bref[b]}
                IN  IF rows = {}
                    THEN BkGoto(b, "verify")
                    ELSE \E existingRow \in rows :
                            IF existingRow.status = "used"
                            THEN BkFinish(b, "PAYMENT_USED")
                            ELSE BkGoto(b, "verify")
    /\ UNCHANGED <<stores, effects, bref, isCEO, paymentData, btrace, bretry,
                   pvars, rvars, kvars, xvars>>

\* BkVerify with the mark-used write issued as soon as the gateway confirms.
BkVerifyMarksUsed(b) ==
    /\ bpc[b] = "verify"
    /\ gwCalls' = gwCalls \cup {<<"bookings", b>>}
    /\ IF GatewayStatus(bref[b]) = "success"
       THEN /\ BkGoto(b, "resolve")
            /\ paymentData' = [paymentData EXCEPT ![b] = "success"]
            /\ btrace' = [btrace EXCEPT ![b] = Append(@, "VERIFIED")]
            /\ payments' = payments \cup {[reference |-> bref[b], status |-> "used",
                                            by |-> <<"bookings", b>>]}
       ELSE /\ BkFinish(b, "PAYMENT_FAILED")
            /\ UNCHANGED <<paymentData, btrace, payments>>
    /\ UNCHANGED <<properties, rooms, bookings, receipts, objects, mails, bref, isCEO,
                   bfault, bretry, pvars, rvars, kvars, xvars>>

\* verifyPayment: authoritative.  An error other than "reference not found" is
\* rethrown to the outer catch.
BkVerify(b) ==
    /\ bpc[b] = "verify"
    /\ gwCalls' = gwCalls \cup {<<"bookings", b>>}
    /\ \E reachable \in BOOLEAN :
        IF ~reachable
        THEN /\ BkFinish(b, "BOOKING_CREATION_FAILED")
             /\ UNCHANGED <<paymentData, btrace>>
        ELSE /\ IF GatewayStatus(bref[b]) = "unknown"
                THEN /\ BkFinish(b, "PAYMENT_REFERENCE_NOT_FOUND")
                     /\ UNCHANGED <<paymentData, btrace>>
                ELSE IF GatewayStatus(bref[b]) # "success"
                THEN /\ BkFinish(b, "PAYMENT_FAILED")
                     /\ paymentData' = [paymentData EXCEPT ![b] = GatewayStatus(bref[b])]
                     /\ UNCHANGED btrace
                ELSE /\ BkGoto(b, "resolve")
                     /\ paymentData' = [paymentData EXCEPT ![b] = "success"]
                     /\ btrace' = [btrace EXCEPT ![b] = Append(@, "VERIFIED")]
    /\ UNCHANGED <<stores, objects, mails, bref, isCEO, bfault, bretry,
                   pvars, rvars, kvars, xvars>>

\* Room and property lookup for body.room_id; the property id is the part of
\* the room id before its first dash.
BkResolve(b) ==
    /\ bpc[b] = "resolve"
    /\ \E ok \in BOOLEAN, roomId \in RoomIds :
        IF ~ok
        THEN BkFinish(b, "BOOKING_CREATION_FAILED")
        ELSE LET room == {r \in rooms : r.room_id = roomId}
                 property == {p \in properties : p.property_id = roomId[1]}
             IN  IF room = {} \/ property = {}
                 THEN BkFinish(b, "ROOM_OR_PROPERTY_NOT_FOUND")
                 ELSE BkGoto(b, "landlord")
    /\ UNCHANGED <<stores, effects, bref, isCEO, paymentData, bfault, btrace,
                   bretry, pvars, rvars, kvars, xvars>>

\* BkLandlord with the room reserved before the landlord is looked up.
BkLandlordReserves(b) ==
    /\ bpc[b] = "landlord"
    /\ \E room \in rooms :
          rooms' = (rooms \ {room}) \cup {[room EXCEPT !.active = FALSE]}
    /\ \E landlord \in {"found", "missing", "error"}, isUser \in BOOLEAN,
          guestFields \in BOOLEAN :
        CASE landlord = "error" -> BkFinish(b, "BOOKING_CREATION_FAILED")
          [] landlord = "missing" -> BkFinish(b, "LANDLORD_NOT_FOUND")
          [] OTHER ->
                IF ~isCEO[b] /\ ~isUser /\ ~guestFields
                THEN BkFinish(b, "MISSING_GUEST_FIELDS")
                ELSE BkGoto(b, "receipt")
    /\ UNCHANGED <<payments, properties, bookings, receipts, effects, bref, isCEO,
                   paymentData, bfault, btrace, bretry, pvars, rvars, kvars, xvars>>

\* Landlord lookup in the users store (kept by other handlers), then the
\* booking object is built; a caller without a token is a guest and must send
\* full_name, phone_number, national_id and from.
BkLandlord(b) ==
    /\ bpc[b] = "landlord"
    /\ \E landlord \in {"found", "missing", "error"}, isUser \in BOOLEAN,
          guestFields \in BOOLEAN :
        CASE landlord = "error" -> BkFinish(b, "BOOKING_CREATION_FAILED")
          [] landlord = "missing" -> BkFinish(b, "LANDLORD_NOT_FOUND")
          [] OTHER ->
                IF ~isCEO[b] /\ ~isUser /\ ~guestFields
                THEN BkFinish(b, "MISSING_GUEST_FIELDS")
                ELSE BkGoto(b, "receipt")
    /\ UNCHANGED <<stores, effects, bref, isCEO, paymentData, bfault, btrace,
                   bretry, pvars, rvars, kvars, xvars>>

\* "Generate receipt: QR + PDF".  The array handed to Promise.all is built
\* first: QRCode.toDataURL(verifyUrl) is called, then the template literal
\* of htmlToPdfBuffer reads qrDataUrl, the const this very statement declares.
\* The binding is uninitialised, the read throws a ReferenceError, and the
\* outer catch answers BOOKING_CREATION_FAILED (500).  No run gets past this
\* statement, so the upload (r2 = initR2() is moreover an unawaited promise
\* without uploadFile), the write fan-out (room patch, property patch, booking
\* insert, payment mark-used) and the e-mails that follow it never execute.
BkGenerateReceipt(b) ==
    /\ bpc[b] = "receipt"
    /\ BkFinish(b, "BOOKING_CREATION_FAILED")
    /\ btrace' = [btrace EXCEPT ![b] = Append(@, "RECEIPT_GENERATION")]
    /\ UNCHANGED <<stores, effects, bref, isCEO, paymentData, bfault, bretry,
                   pvars, rvars, kvars, xvars>>

\* ---------------------------------------------------------- POST /properties
PpFinish(p, code) ==
    /\ ppc' = [ppc EXCEPT ![p] = "done"]
    /\ pres' = [pres EXCEPT ![p] = code]

PpGoto(p, label) ==
    /\ ppc' = [ppc EXCEPT ![p] = label]
    /\ UNCHANGED pres

\* sendFailureEmail / sendSuccessEmail: awaited, errors swallowed.
PpMail(p, kind) == mails' = mails \cup {<<"properties", p, kind>>}

\* Token, role, body and field validation, then the three getCollection calls.
PpStart(p) ==
    /\ ppc[p] = "idle"
    /\ \E v \in {"ok", "UNAUTHORIZED", "FORBIDDEN", "MISSING_FIELDS",
                 "INVALID_VIDEO_URL", "INVALID_VIDEO_THUMBNAIL", "INVALID_ROOMS"} :
        IF v # "ok"
        THEN /\ PpFinish(p, v)
             /\ UNCHANGED <<pref, pnrooms, pceo, mails>>
        ELSE \E ref \in Refs, n \in 0..MaxRooms, ceo \in BOOLEAN, colsOk \in BOOLEAN :
             /\ pref' = [pref EXCEPT ![p] = ref]
             /\ pnrooms' = [pnrooms EXCEPT ![p] = n]
             /\ pceo' = [pceo EXCEPT ![p] = ceo]
             /\ IF ~colsOk
                THEN PpFinish(p, "DB_CONNECTION_FAILED") /\ PpMail(p, "failure")
                ELSE /\ PpGoto(p, IF ceo THEN "insert" ELSE "check")
                     /\ UNCHANGED mails
    /\ UNCHANGED <<stores, objects, gwCalls, ppaid, bvars, rvars, kvars, xvars>>

\* PpCheckUsed with a failed lookup answered as a store failure.
PpCheckUsedFailClosed(p) ==
    /\ ppc[p] = "check"
    /\ \E ok \in BOOLEAN :
        IF ~ok
        THEN PpFinish(p, "DB_CONNECTION_FAILED") /\ PpMail(p, "failure")
        ELSE LET rows == {pr \in payments : pr.reference = pref[p]}
             IN  IF rows = {}
                 THEN PpGoto(p, "verify") /\ UNCHANGED mails
                 ELSE \E existingRow \in rows :
                        IF existingRow.status = "used"
                        THEN PpFinish(p, "PAYMENT_ALREADY_USED") /\ PpMail(p, "failure")
                        ELSE PpGoto(p, "verify") /\ UNCHANGED mails
    /\ UNCHANGED <<stores, objects, gwCalls, pref, pnrooms, pceo, ppaid, bvars, rvars, kvars, xvars>>

\* "Block only if a local record explicitly marks the reference as used."
PpCheckUsed(p) ==
    /\ ppc[p] = "check"
    /\ \E ok \in BOOLEAN :
        IF ~ok
        THEN PpGoto(p, "verify") /\ UNCHANGED mails
        ELSE LET rows == {pr \in payments : pr.reference = pref[p]}
             IN  IF rows = {}
                 THEN PpGoto(p, "verify") /\ UNCHANGED mails
                 ELSE \E existingRow \in rows :
                        IF existingRow.status = "used"
                        THEN PpFinish(p, "PAYMENT_ALREADY_USED") /\ PpMail(p, "failure")
                        ELSE PpGoto(p, "verify") /\ UNCHANGED mails
    /\ UNCHANGED <<stores, objects, gwCalls, pref, pnrooms, pceo, ppaid, bvars, rvars, kvars, xvars>>

\* Provider verification; every throw answers PAYMENT_VERIFICATION_ERROR.
PpVerify(p) ==
    /\ ppc[p] = "verify"
    /\ gwCalls' = gwCalls \cup {<<"properties", p>>}
    /\ \E reachable \in BOOLEAN :
        IF ~reachable \/ GatewayStatus(pref[p]) = "unknown"
        THEN /\ PpFinish(p, "PAYMENT_VERIFICATION_ERROR") /\ PpMail(p, "failure")
             /\ UNCHANGED ppaid
        ELSE IF GatewayStatus(pref[p]) # "success"
        THEN /\ PpFinish(p, "PAYMENT_VERIFICATION_FAILED") /\ PpMail(p, "failure")
             /\ UNCHANGED ppaid
        ELSE /\ PpGoto(p, "insert") /\ UNCHANGED mails
             /\ ppaid' = [ppaid EXCEPT ![p] = TRUE]
    /\ UNCHANGED <<stores, objects, pref, pnrooms, pceo, bvars, rvars, kvars, xvars>>

\* newProperty: active is always true, unit_available is rooms.length (0 when no
\* rooms array is sent).
newProperty(p) ==
    [property_id |-> p, active |-> TRUE, unit_available |-> pnrooms[p]]

PpInsertProperty(p) ==
    /\ ppc[p] = "insert"
    /\ \E ok \in BOOLEAN :
        IF ~ok
        THEN /\ PpFinish(p, "PROPERTY_INSERT_FAILED") /\ PpMail(p, "failure")
             /\ UNCHANGED properties
        ELSE /\ properties' = properties \cup {newProperty(p)}
             /\ PpGoto(p, IF pnrooms[p] > 0 THEN "rooms" ELSE "record")
             /\ UNCHANGED mails
    /\ UNCHANGED <<payments, rooms, bookings, receipts, objects, gwCalls,
                   pref, pnrooms, pceo, ppaid, bvars, rvars, kvars, xvars>>

\* One roomsCol.post per room, joined by Promise.all: the posts that landed
\* stay when another one is rejected (or a later room lacks name or size).
PpInsertRooms(p) ==
    /\ ppc[p] = "rooms"
    /\ \E landed \in SUBSET (1..pnrooms[p]) :
        /\ rooms' = rooms \cup {[room_id |-> <<p, i>>, property_id |-> p,
                                 active |-> TRUE] : i \in landed}
        /\ IF landed = 1..pnrooms[p]
           THEN PpGoto(p, "record") /\ UNCHANGED mails
           ELSE PpFinish(p, "ROOM_INSERT_FAILED") /\ PpMail(p, "failure")
    /\ UNCHANGED <<payments, properties, bookings, receipts, objects, gwCalls,
                   pref, pnrooms, pceo, ppaid, bvars, rvars, kvars, xvars>>

\* "Record payment usage (optional)": a rejected post is only logged.
PpRecordPayment(p) ==
    /\ ppc[p] = "record"
    /\ IF ~pceo[p] /\ ppaid[p]
       THEN \E ok \in BOOLEAN :
              payments' = IF ok
                          THEN payments \cup {[reference |-> pref[p], status |-> "used",
                                               by |-> <<"properties", p>>]}
                          ELSE payments
       ELSE UNCHANGED payments
    /\ PpFinish(p, "SUCCESS") /\ PpMail(p, "success")
    /\ UNCHANGED <<properties, rooms, bookings, receipts, objects, gwCalls,
                   pref, pnrooms, pceo, ppaid, bvars, rvars, kvars, xvars>>

\* ------------------------------------------------------------ POST /receipts
RcFinish(r, code) ==
    /\ rpc' = [rpc EXCEPT ![r] = "done"]
    /\ rres' = [rres EXCEPT ![r] = code]

RcGoto(r, label) ==
    /\ rpc' = [rpc EXCEPT ![r] = label]
    /\ UNCHANGED rres

\* r2.generateFilename('pdf', 'receipts') draws a fresh UUID per request, and
\* receipt_id is RCT-<fresh UUID>: both are the request's own.
ObjectKey(r) == <<"receipts", r>>
generatePublicUrl(key) == <<"url", key>>
ReceiptId(r) == <<"RCT", r>>

\* Role check, body, required fields, the x-idempotency-key header and the
\* amount are all settled before the first side effect.
RcStart(r) ==
    /\ rpc[r] = "idle"
    /\ rprior' = [rprior EXCEPT ![r] = {x \in RReqs : rpc[x] = "done" /\ rres[x] = "SUCCESS"}]
    /\ \E v \in {"ok", "UNAUTHORIZED", "INVALID_BODY", "MISSING_FIELDS"} :
        IF v # "ok"
        THEN RcFinish(r, v) /\ UNCHANGED <<rkey, normalizedAmount>>
        ELSE \E idempotencyKey \in IdempotencyKeys \cup {NoKey} :
             LET amount == parseAndNormalizeAmount(rbody[r], currencyHintOf(rbody[r])) IN
             /\ rkey' = [rkey EXCEPT ![r] = idempotencyKey]
             /\ normalizedAmount' = [normalizedAmount EXCEPT ![r] = amount]
             /\ IF amount.ok THEN RcGoto(r, "qr") ELSE RcFinish(r, "INVALID_AMOUNT")
    /\ UNCHANGED <<stores, effects, attempt, rresp, rdid, rbody, bvars, pvars, kvars, xvars>>

\* QRCode.toDataURL(verifyUrl, {errorCorrectionLevel: 'H'})
RcQr(r) ==
    /\ rpc[r] = "qr"
    /\ \E ok \in BOOLEAN :
        IF ok
        THEN RcGoto(r, "pdf") /\ rdid' = [rdid EXCEPT ![r] = @ \cup {"qr"}]
        ELSE RcFinish(r, "QR_GENERATION_FAILED") /\ UNCHANGED rdid
    /\ UNCHANGED <<stores, effects, rkey, rbody, normalizedAmount, attempt, rresp, rprior, bvars, pvars, kvars, xvars>>

\* puppeteer: launch, newPage, setContent, pdf, close
RcPdf(r) ==
    /\ rpc[r] = "pdf"
    /\ \E ok \in BOOLEAN :
        IF ok
        THEN RcGoto(r, "r2") /\ rdid' = [rdid EXCEPT ![r] = @ \cup {"pdf"}]
        ELSE RcFinish(r, "PDF_GENERATION_FAILED") /\ UNCHANGED rdid
    /\ UNCHANGED <<stores, effects, rkey, rbody, normalizedAmount, attempt, rresp, rprior, bvars, pvars, kvars, xvars>>

\* await initR2(); key and public_url are computed before the upload.
RcInitR2(r) ==
    /\ rpc[r] = "r2"
    /\ \E ok \in BOOLEAN :
        IF ok THEN RcGoto(r, "upload") ELSE RcFinish(r, "GENERATION_FAILED")
    /\ UNCHANGED <<stores, effects, rkey, rbody, normalizedAmount, attempt, rresp, rprior, rdid, bvars, pvars, kvars, xvars>>

\* retryUpload that gives up silently: the last failure is swallowed and the
\* handler carries on as if the object were stored.
retryUploadSwallows(r) ==
    /\ rpc[r] = "upload"
    /\ \E uploaded \in BOOLEAN :
        IF uploaded
        THEN /\ objects' = objects \cup {ObjectKey(r)}
             /\ rdid' = [rdid EXCEPT ![r] = @ \cup {"upload"}]
             /\ RcGoto(r, "collection")
             /\ UNCHANGED attempt
        ELSE /\ attempt' = [attempt EXCEPT ![r] = @ + 1]
             /\ UNCHANGED <<objects, rdid>>
             /\ RcGoto(r, IF attempt[r] + 1 >= UPLOAD_RETRY_ATTEMPTS
                          THEN "collection" ELSE "upload")
    /\ UNCHANGED <<stores, mails, gwCalls, rkey, rbody, normalizedAmount, rresp, rprior, bvars, pvars, kvars, xvars>>

\* retryUpload that gives up on the first failure: no attempt is repeated.
retryUploadNoRetry(r) ==
    /\ rpc[r] = "upload"
    /\ \E uploaded \in BOOLEAN :
        IF uploaded
        THEN /\ objects' = objects \cup {ObjectKey(r)}
             /\ rdid' = [rdid EXCEPT ![r] = @ \cup {"upload"}]
             /\ RcGoto(r, "collection")
             /\ UNCHANGED attempt
        ELSE /\ attempt' = [attempt EXCEPT ![r] = @ + 1]
             /\ UNCHANGED <<objects, rdid>>
             /\ RcFinish(r, "GENERATION_FAILED")
    /\ UNCHANGED <<stores, mails, gwCalls, rkey, rbody, normalizedAmount, rresp, rprior, bvars, pvars, kvars, xvars>>

\* retryUpload whose give-up test is off by one (attempt > UPLOAD_RETRY_ATTEMPTS):
\* a fourth attempt is made before the failure is rethrown.
retryUploadOneMore(r) ==
    /\ rpc[r] = "upload"
    /\ \E uploaded \in BOOLEAN :
        IF uploaded
        THEN /\ objects' = objects \cup {ObjectKey(r)}
             /\ rdid' = [rdid EXCEPT ![r] = @ \cup {"upload"}]
             /\ RcGoto(r, "collection")
             /\ UNCHANGED attempt
        ELSE /\ attempt' = [attempt EXCEPT ![r] = @ + 1]
             /\ UNCHANGED <<objects, rdid>>
             /\ IF attempt[r] + 1 > UPLOAD_RETRY_ATTEMPTS
                THEN RcFinish(r, "GENERATION_FAILED")
                ELSE RcGoto(r, "upload")
    /\ UNCHANGED <<stores, mails, gwCalls, rkey, rbody, normalizedAmount, rresp, rprior, bvars, pvars, kvars, xvars>>

\* retryUpload: one r2.uploadFile attempt per step.  A failed attempt counts;
\* the UPLOAD_RETRY_ATTEMPTS-th failure is rethrown, an earlier one is slept on.
retryUpload(r) ==
    /\ rpc[r] = "upload"
    /\ \E uploaded \in BOOLEAN :
        IF uploaded
        THEN /\ objects' = objects \cup {ObjectKey(r)}
             /\ rdid' = [rdid EXCEPT ![r] = @ \cup {"upload"}]
             /\ RcGoto(r, "collection")
             /\ UNCHANGED attempt
        ELSE /\ attempt' = [attempt EXCEPT ![r] = @ + 1]
             /\ UNCHANGED <<objects, rdid>>
             /\ IF attempt[r] + 1 >= UPLOAD_RETRY_ATTEMPTS
                THEN RcFinish(r, "GENERATION_FAILED")
                ELSE RcGoto(r, "upload")
    /\ UNCHANGED <<stores, mails, gwCalls, rkey, rbody, normalizedAmount, rresp, rprior, bvars, pvars, kvars, xvars>>

\* generateUploadUrl, then getCollection('receipts').
RcGetCollection(r) ==
    /\ rpc[r] = "collection"
    /\ \E ok \in BOOLEAN :
        IF ok
        THEN RcGoto(r, IF rkey[r] # NoKey THEN "lookup" ELSE "persist")
        ELSE RcFinish(r, "GENERATION_FAILED")
    /\ UNCHANGED <<stores, effects, rkey, rbody, normalizedAmount, attempt, rresp, rprior, rdid, bvars, pvars, kvars, xvars>>

\* The idempotency lookup calls receiptsCol.findOne.  The handle getCollection
\* returns has get, post, put, patch, delete and find only: the call throws a
\* TypeError, which the lookup's own catch logs ("Idempotency lookup failed")
\* before the handler goes on to save a new record.  The branch that answers
\* with the prior record is therefore never taken.
RcLookup(r) ==
    /\ rpc[r] = "lookup"
    /\ rdid' = [rdid EXCEPT ![r] = @ \cup {"lookup"}]
    /\ RcGoto(r, "persist")
    /\ UNCHANGED <<stores, effects, rkey, rbody, normalizedAmount, attempt, rresp, rprior, bvars, pvars, kvars, xvars>>

record(r) ==
    [receipt_id |-> ReceiptId(r), idempotency_key |-> rkey[r],
     public_url |-> generatePublicUrl(ObjectKey(r)),
     amount_value |-> normalizedAmount[r].amount_value,
     amount_currency |-> normalizedAmount[r].amount_currency,
     amount_display |-> normalizedAmount[r].amount_display]

\* receiptsCol.post(record), then the answer with the request's own ids.
RcPersist(r) ==
    /\ rpc[r] = "persist"
    /\ \E ok \in BOOLEAN :
        IF ok
        THEN /\ receipts' = receipts \cup {record(r)}
             /\ rresp' = [rresp EXCEPT ![r] = [receipt_id |-> ReceiptId(r),
                                              public_url |-> generatePublicUrl(ObjectKey(r))]]
             /\ RcFinish(r, "SUCCESS")
        ELSE /\ RcFinish(r, "GENERATION_FAILED")
             /\ UNCHANGED <<receipts, rresp>>
    /\ UNCHANGED <<payments, properties, rooms, bookings, effects, rkey, rbody, normalizedAmount, attempt,
                   rprior, rdid, bvars, pvars, kvars, xvars>>

\* ---------------------------------------------------------------- POST /chats
CcFinish(c, code) ==
    /\ cpc' = [cpc EXCEPT ![c] = "done"]
    /\ cres' = [cres EXCEPT ![c] = code]

CcGoto(c, label) ==
    /\ cpc' = [cpc EXCEPT ![c] = label]
    /\ UNCHANGED cres

\* Body parse and validateChatPayload; body.initialMessage is set aside.
CcStart(c) ==
    /\ cpc[c] = "idle"
    /\ \E v \in {"ok", "BODY_PARSE_FAILED", "PAYLOAD_TOO_LARGE", "MISSING_TENANT",
                 "MISSING_PARTICIPANTS", "INVALID_PARTICIPANTS", "INVALID_TYPE"} :
        IF v # "ok"
        THEN CcFinish(c, v) /\ UNCHANGED cinit
        ELSE \E initialMessageRaw \in BOOLEAN :
             /\ cinit' = [cinit EXCEPT ![c] = initialMessageRaw]
             /\ CcGoto(c, "collections")
    /\ UNCHANGED <<stores, effects, bvars, pvars, rvars, xvars, chats, messages, cplan, mvars>>

\* Promise.allSettled over getCollection('chats') and getCollection('messages').
CcGetCollections(c) ==
    /\ cpc[c] = "collections"
    /\ \E ok \in BOOLEAN :
        IF ok THEN CcGoto(c, "insert") ELSE CcFinish(c, "DB_CONNECTION_FAILED")
    /\ UNCHANGED <<stores, effects, bvars, pvars, rvars, xvars, chats, messages,
                   cinit, cplan, mvars>>

\* A chat insert that reaches the store and is written there, while the
\* handler still answers CHAT_INSERT_FAILED (no insertedId comes back).
CcInsertChatWritten(c) ==
    /\ cpc[c] = "insert"
    /\ \E plan \in CreatePlans : cplan' = [cplan EXCEPT ![c] = plan]
    /\ chats' = chats \cup {[id |-> <<"chat", c>>, tenantId |-> "t1",
                             participants |-> {"u1"}]}
    /\ CcFinish(c, "CHAT_INSERT_FAILED")
    /\ UNCHANGED <<stores, effects, bvars, pvars, rvars, xvars, messages, cinit, mvars>>

\* chatsCol.insertOne(chatData).  The handle getCollection returns has get,
\* post, put, patch, delete and find only, so the call throws a TypeError
\* before anything is sent to the store; the catch around it answers
\* CHAT_INSERT_FAILED.  Nothing after the insert (sanitizeInitialMessage,
\* the message insert, the rollback with chatsCol.deleteOne) is ever run,
\* whatever the store would have done to these writes.
CcInsertChat(c) ==
    /\ cpc[c] = "insert"
    /\ \E plan \in CreatePlans : cplan' = [cplan EXCEPT ![c] = plan]
    /\ CcFinish(c, "CHAT_INSERT_FAILED")
    /\ UNCHANGED <<stores, effects, bvars, pvars, rvars, xvars, chats, messages,
                   cinit, mvars>>

\* --------------------------------------------------- POST /chats/:id/messages
PmFinish(m, code) ==
    /\ mpc' = [mpc EXCEPT ![m] = "done"]
    /\ mres' = [mres EXCEPT ![m] = code]

PmGoto(m, label) ==
    /\ mpc' = [mpc EXCEPT ![m] = label]
    /\ UNCHANGED mres

\* User id, chat id, body parse, sanitizeMessage and validateMessageSize.
PmStart(m) ==
    /\ mpc[m] = "idle"
    /\ \E v \in {"ok", "UNAUTHENTICATED", "INVALID_CHAT_ID", "BODY_PARSE_FAILED",
                 "INVALID_MESSAGE", "MESSAGE_TOO_LARGE"} :
        IF v # "ok"
        THEN PmFinish(m, v)
        ELSE PmGoto(m, "collections")
    /\ UNCHANGED <<stores, effects, bvars, pvars, rvars, xvars, chats, messages,
                   mchat, mwho, mplan, cvars>>

PmGetCollections(m) ==
    /\ mpc[m] = "collections"
    /\ \E ok \in BOOLEAN :
        IF ok THEN PmGoto(m, "find") ELSE PmFinish(m, "DB_CONNECTION_FAILED")
    /\ UNCHANGED <<stores, effects, bvars, pvars, rvars, xvars, chats, messages,
                   mchat, mwho, mplan, cvars>>

\* chatsCol.find by _id, then the tenant and the participant checks.  A
\* rejected find answers DB_QUERY_FAILED; an answer without documents (an
\* error body included) reads as CHAT_NOT_FOUND.  The chat id and the caller
\* are the request's own from the start; they are drawn here, where they are
\* first used.
PmFindChat(m) ==
    /\ mpc[m] = "find"
    /\ \E chatId \in ChatIds, who \in {"participant", "stranger", "other-tenant"},
          found \in {"answered", "rejected", "error-body"} :
        /\ mchat' = [mchat EXCEPT ![m] = chatId]
        /\ mwho' = [mwho EXCEPT ![m] = who]
        /\ LET docs == IF found = "answered" THEN {ch \in chats : ch.id = chatId}
                       ELSE {} IN
           IF found = "rejected" THEN PmFinish(m, "DB_QUERY_FAILED")
           ELSE IF docs = {} THEN PmFinish(m, "CHAT_NOT_FOUND")
           ELSE IF who # "participant" THEN PmFinish(m, "FORBIDDEN")
           ELSE PmGoto(m, "insert")
    /\ UNCHANGED <<stores, effects, bvars, pvars, rvars, xvars, chats, messages,
                   mplan, cvars>>

\* messagesCol.insertOne(messagePayload): as in createChat, the handle has no
\* insertOne, the call throws a TypeError and the catch around it answers
\* MESSAGE_INSERT_FAILED.  The chat update with chatsCol.updateOne and the
\* rollback with messagesCol.deleteOne are never run, whatever the store
\* would have done to these writes.
PmInsertMessage(m) ==
    /\ mpc[m] = "insert"
    /\ \E plan \in MsgPlans : mplan' = [mplan EXCEPT ![m] = plan]
    /\ PmFinish(m, "MESSAGE_INSERT_FAILED")
    /\ UNCHANGED <<stores, effects, bvars, pvars, rvars, xvars, chats, messages,
                   mchat, mwho, cvars>>

\* ------------------------------------------------------------ specifications
\* Booking and property-creation requests in any interleaving.
\* ---------------------------------------------------------- PUT /bookings/:id
\* A booking document as the booking handler builds it (booking_id, receipt_id,
\* room_id, landlord_id, payment_reference, audit_traceid), with the
\* receipt_url attached; the fields a document does not have read "undefined".
SeedBooking ==
    [booking_id |-> 0, receipt_id |-> <<"uuid", 0>>, room_id |-> <<1, 1>>,
     landlord_id |-> "L1", payment_reference |-> "PAY-1",
     receipt_url |-> generatePublicUrl(<<"receipts", 0>>),
     audit_traceid |-> <<"trace", 0>>,
     status |-> "undefined", start_date |-> "undefined", end_date |-> "undefined",
     notes |-> "undefined", updated_by |-> "undefined"]

\* The ids a client may put in the path: the booking's, and one of no booking.
BookingIds == {0, 9}

\* Who checkToken may resolve the token to.
Actors == {[userId |-> "L1", role |-> "landlord"], [userId |-> "L2", role |-> "landlord"],
           [userId |-> "A1", role |-> "admin"], [userId |-> "T1", role |-> "tenant"]}

roleOf(userId) == (CHOOSE a \in Actors : a.userId = userId).role

allowedInputKeys == {"status", "new_checkout_date", "start_date", "end_date", "notes"}

\* Request bodies: any of the allowed keys and two others, each with an empty
\* or a non-empty value.
InputKeys == allowedInputKeys \cup {"receipt_url", "room_id"}
UpdateBodies == UNION {[K -> {"", "new"}] : K \in SUBSET InputKeys}

sanitized(updateData) ==
    [key \in DOMAIN updateData \cap allowedInputKeys |-> updateData[key]]

Has(obj, key) == key \in DOMAIN obj /\ obj[key] # ""

\* "Map/normalize fields to stored keys", then the audit fields.
payloadOf(u, updateData) ==
    LET san == sanitized(updateData)
        end_date == IF Has(san, "end_date") THEN san["end_date"]
                    ELSE IF Has(san, "new_checkout_date") THEN san["new_checkout_date"]
                    ELSE ""
        fields == {f \in {"status", "start_date", "notes"} : Has(san, f)}
                     \cup (IF end_date # "" THEN {"end_date"} ELSE {})
                     \cup {"updated_by", "audit_traceid"}
    IN  [f \in fields |->
            CASE f = "updated_by" -> uactor[u]
              [] f = "audit_traceid" -> <<"trace", u>>
              [] f = "end_date" -> end_date
              [] OTHER -> san[f]]

\* bookingsCol.patch: the fields of the payload replace the document's.
patched(doc, payload) ==
    [f \in DOMAIN doc \cup DOMAIN payload |->
        IF f \in DOMAIN payload THEN payload[f] ELSE doc[f]]

UbFinish(u, code) ==
    /\ upc' = [upc EXCEPT ![u] = "done"]
    /\ ures' = [ures EXCEPT ![u] = code]

UbGoto(u, label) ==
    /\ upc' = [upc EXCEPT ![u] = label]
    /\ UNCHANGED ures

\* Token and id, checkToken and getCollection('bookings') settled together,
\* then the JSON body.
UbStart(u) ==
    /\ upc[u] = "idle"
    /\ \E v \in {"ok", "UNAUTHORIZED_OR_INVALID_ID", "INVALID_TOKEN",
                 "DB_CONNECTION_FAILED", "INVALID_BODY"} :
        IF v # "ok"
        THEN UbFinish(u, v) /\ UNCHANGED <<uid, uactor>>
        ELSE \E id \in BookingIds, actor \in Actors :
             /\ uid' = [uid EXCEPT ![u] = id]
             /\ uactor' = [uactor EXCEPT ![u] = actor.userId]
             /\ UbGoto(u, "find")
    /\ UNCHANGED <<stores, effects, bvars, pvars, rvars, kvars, updatePayload, avars>>

\* bookingsCol.find by booking_id, the authorization test, the allowed
\* fields of the body and the payload built from them.
UbFind(u) ==
    /\ upc[u] = "find"
    /\ \E ok \in BOOLEAN, updateData \in UpdateBodies :
        IF ~ok
        THEN UbFinish(u, "DB_QUERY_FAILED") /\ UNCHANGED updatePayload
        ELSE LET found == {bk \in bookings : bk.booking_id = uid[u]}
             IN  IF found = {}
                 THEN UbFinish(u, "BOOKING_NOT_FOUND") /\ UNCHANGED updatePayload
                 ELSE \E booking \in found :
                      LET isActorLandlord == booking.landlord_id = uactor[u]
                          isActorAdmin == roleOf(uactor[u]) \in {"admin", "ceo"}
                      IN  IF ~isActorLandlord /\ ~isActorAdmin
                          THEN UbFinish(u, "FORBIDDEN") /\ UNCHANGED updatePayload
                          ELSE IF DOMAIN sanitized(updateData) = {}
                          THEN UbFinish(u, "NO_VALID_FIELDS") /\ UNCHANGED updatePayload
                          ELSE /\ updatePayload' = [updatePayload EXCEPT ![u] =
                                                       payloadOf(u, updateData)]
                               /\ UbGoto(u, "patch")
    /\ UNCHANGED <<stores, effects, bvars, pvars, rvars, kvars, uid, uactor, avars>>

\* bookingsCol.patch(booking._id, updatePayload) and the answer.  The handle's
\* patch resolves with the parsed body whatever the HTTP status, so a patch
\* the store refused is answered like one it applied; only a rejected fetch
\* reaches the catch.
UbPatch(u) ==
    /\ upc[u] = "patch"
    /\ \E outcome \in {"patched", "refused", "rejected"} :
        CASE outcome = "patched" ->
                /\ bookings' = {IF bk.booking_id = uid[u]
                                THEN patched(bk, updatePayload[u]) ELSE bk : bk \in bookings}
                /\ UbFinish(u, "SUCCESS")
          [] outcome = "refused" ->
                /\ UbFinish(u, "SUCCESS")
                /\ UNCHANGED bookings
          [] OTHER ->
                /\ UbFinish(u, "UPDATE_FAILED")
                /\ UNCHANGED bookings
    /\ UNCHANGED <<payments, properties, rooms, receipts, effects, bvars, pvars, rvars,
                   kvars, uid, uactor, updatePayload, avars>>

\* ------------------------------------------------------- services/astra.js
\* Collection names callers ask for; "" stands for a missing name.
CollectionNames == {"bookings", "payments"}

GcFinish(g, result) ==
    /\ gpc' = [gpc EXCEPT ![g] = "done"]
    /\ gres' = [gres EXCEPT ![g] = result]

GcGoto(g, label) ==
    /\ gpc' = [gpc EXCEPT ![g] = label]
    /\ UNCHANGED gres

\* getCollection(name) up to the await inside ensureClientReady.  The first
\* caller starts the setup: without credentials the async function stores
\* the error and returns at once, otherwise its fetch is in flight.  A caller
\* that finds setupPromise set returns that very promise.
getCollection(g) ==
    /\ gpc[g] = "idle"
    /\ \E name \in CollectionNames \cup {""} :
        /\ gname' = [gname EXCEPT ![g] = name]
        /\ IF name = ""
           THEN /\ GcFinish(g, "Collection name required.")
                /\ UNCHANGED <<setupError, setupPromise>>
           ELSE IF setupError
           THEN /\ GcFinish(g, "setupError")
                /\ UNCHANGED <<setupError, setupPromise>>
           ELSE IF setupPromise # "undefined"
           THEN /\ GcGoto(g, "returned setupPromise")
                /\ UNCHANGED <<setupError, setupPromise>>
           ELSE /\ GcGoto(g, "await setupPromise")
                /\ IF ~credentials
                   THEN setupError' = TRUE /\ setupPromise' = "fulfilled"
                   ELSE setupPromise' = "pending" /\ UNCHANGED setupError
    /\ UNCHANGED <<stores, effects, bvars, pvars, rvars, kvars, uvars, credentials, cache>>

\* The fetch of the setup settles; a bad status or a rejection is caught and
\* stored, and the setup promise is fulfilled either way.
setupSettles ==
    /\ setupPromise = "pending"
    /\ setupPromise' = "fulfilled"
    /\ \E ok \in BOOLEAN : setupError' = ~ok
    /\ UNCHANGED <<stores, effects, bvars, pvars, rvars, kvars, uvars, credentials, cache,
                   gpc, gname, gres>>

\* The caller that started the setup resumes after `await setupPromise` and
\* tests setupError.
ensureClientReady(g) ==
    /\ gpc[g] = "await setupPromise"
    /\ setupPromise = "fulfilled"
    /\ IF setupError THEN GcFinish(g, "setupError") ELSE GcGoto(g, "ready")
    /\ UNCHANGED <<stores, effects, bvars, pvars, rvars, kvars, uvars, credentials,
                   setupError, setupPromise, cache, gname>>

\* A caller that was handed setupPromise itself resumes when it is
\* fulfilled; nothing tests setupError on this path.
ensureClientReadyJoined(g) ==
    /\ gpc[g] = "returned setupPromise"
    /\ setupPromise = "fulfilled"
    /\ GcGoto(g, "ready")
    /\ UNCHANGED <<stores, effects, bvars, pvars, rvars, kvars, uvars, credentials,
                   setupError, setupPromise, cache, gname>>

\* The cached handle, or a new one put into the cache.
GcHandle(g) ==
    /\ gpc[g] = "ready"
    /\ cache' = cache \cup {gname[g]}
    /\ GcFinish(g, "handle")
    /\ UNCHANGED <<stores, effects, bvars, pvars, rvars, kvars, uvars, credentials,
                   setupError, setupPromise, gname>>

Next ==
    \/ \E b \in BReqs : BkStart(b)
    \/ \E b \in BReqs : BkCheckUsed(b)
    \/ \E b \in BReqs : BkVerify(b)
    \/ \E b \in BReqs : BkResolve(b)
    \/ \E b \in BReqs : BkLandlord(b)
    \/ \E b \in BReqs : BkGenerateReceipt(b)
    \/ \E p \in PReqs : PpStart(p)
    \/ \E p \in PReqs : PpCheckUsed(p)
    \/ \E p \in PReqs : PpVerify(p)
    \/ \E p \in PReqs : PpInsertProperty(p)
    \/ \E p \in PReqs : PpInsertRooms(p)
    \/ \E p \in PReqs : PpRecordPayment(p)

Spec == Init /\ [][Next]_vars

\* Booking requests alone, against the stores as property creation leaves
\* them: still empty, or holding every property with its rooms, created
\* either by the CEO (no payment involved) or, the first of them, by a
\* landlord who paid with PAY-1, which creation then marked used.
AfterCreation(paid) ==
    /\ properties = {[property_id |-> p, active |-> TRUE, unit_available |-> MaxRooms] :
                        p \in PReqs}
    /\ rooms = {[room_id |-> <<p, i>>, property_id |-> p, active |-> TRUE] :
                        p \in PReqs, i \in 1..MaxRooms}
    /\ payments = IF paid
                  THEN {[reference |-> "PAY-1", status |-> "used", by |-> <<"properties", 1>>]}
                  ELSE {}
    /\ bookings = {} /\ receipts = {} /\ objects = {}
    /\ mails = {<<"properties", p, "success">> : p \in PReqs}
    /\ gwCalls = IF paid THEN {<<"properties", 1>>} ELSE {}
    /\ ppc = [p \in PReqs |-> "done"]
    /\ pres = [p \in PReqs |-> "SUCCESS"]
    /\ pnrooms = [p \in PReqs |-> MaxRooms]
    /\ pceo = [p \in PReqs |-> ~(paid /\ p = 1)]
    /\ ppaid = [p \in PReqs |-> paid /\ p = 1]
    /\ pref = [p \in PReqs |-> IF paid /\ p = 1 THEN "PAY-1" ELSE "PAY-2"]

BookingInit ==
    \/ Init
    \/ /\ \E paid \in BOOLEAN : AfterCreation(paid)
       /\ bpc = [b \in BReqs |-> "idle"]
       /\ bref = [b \in BReqs |-> "none"]
       /\ isCEO = [b \in BReqs |-> FALSE]
       /\ paymentData = [b \in BReqs |-> "null"]
       /\ bres = [b \in BReqs |-> "none"]
       /\ bfault = [b \in BReqs |-> FALSE]
       /\ btrace = [b \in BReqs |-> <<>>]
       /\ bretry = [b \in BReqs |-> FALSE]
       /\ rpc = [r \in RReqs |-> "idle"]
       /\ rkey = [r \in RReqs |-> NoKey]
       /\ attempt = [r \in RReqs |-> 0]
       /\ rres = [r \in RReqs |-> "none"]
       /\ rresp = [r \in RReqs |-> [receipt_id |-> <<>>, public_url |-> <<>>]]
       /\ rprior = [r \in RReqs |-> {}]
       /\ rdid = [r \in RReqs |-> {}]
       /\ normalizedAmount = [r \in RReqs |-> Thrown("pending")]
       /\ rbody = [r \in RReqs |-> SampleBody]
       /\ ChatsIdle({})
       /\ UpdatesIdle /\ AstraLoaded(TRUE)

NextBookings ==
    \/ \E b \in BReqs : BkStart(b)
    \/ \E b \in BReqs : BkCheckUsed(b)
    \/ \E b \in BReqs : BkVerify(b)
    \/ \E b \in BReqs : BkResolve(b)
    \/ \E b \in BReqs : BkLandlord(b)
    \/ \E b \in BReqs : BkGenerateReceipt(b)

SpecBookings == BookingInit /\ [][NextBookings]_vars

\* Receipt requests in any interleaving.
NextReceipts ==
    \/ \E r \in RReqs : RcStart(r)
    \/ \E r \in RReqs : RcQr(r)
    \/ \E r \in RReqs : RcPdf(r)
    \/ \E r \in RReqs : RcInitR2(r)
    \/ \E r \in RReqs : retryUpload(r)
    \/ \E r \in RReqs : RcGetCollection(r)
    \/ \E r \in RReqs : RcLookup(r)
    \/ \E r \in RReqs : RcPersist(r)

SpecReceipts == Init /\ [][NextReceipts]_vars

\* One receipt request, with any of the amount bodies.
AmountInit ==
    /\ Quiescent /\ ChatsIdle({})
    /\ \E body \in AmountBodies :
          rbody = [r \in RReqs |-> IF r = 1 THEN body ELSE SampleBody]

NextAmounts ==
    \/ RcStart(1)
    \/ RcQr(1)
    \/ RcPdf(1)
    \/ RcInitR2(1)
    \/ retryUpload(1)
    \/ RcGetCollection(1)
    \/ RcLookup(1)
    \/ RcPersist(1)

SpecAmounts == AmountInit /\ [][NextAmounts]_vars

\* Chat requests in any interleaving, against a chats collection that is
\* empty or holds SeedChat.
ChatInit ==
    /\ Quiescent /\ rbody = [r \in RReqs |-> SampleBody]
    /\ \E seed \in {{}, {SeedChat}} : ChatsIdle(seed)

NextChats ==
    \/ \E c \in CReqs : CcStart(c)
    \/ \E c \in CReqs : CcGetCollections(c)
    \/ \E c \in CReqs : CcInsertChat(c)
    \/ \E m \in MReqs : PmStart(m)
    \/ \E m \in MReqs : PmGetCollections(m)
    \/ \E m \in MReqs : PmFindChat(m)
    \/ \E m \in MReqs : PmInsertMessage(m)

SpecChats == ChatInit /\ [][NextChats]_vars
\* One booking request and the property requests in any interleaving, against
\* a payments collection that is empty or holds the used record an earlier
\* property creation left for PAY-1.
UsedEarlier == [reference |-> "PAY-1", status |-> "used", by |-> <<"properties", 0>>]

LookupInit ==
    /\ NoRequestStarted /\ AstraLoaded(TRUE) /\ ChatsIdle({})
    /\ rbody = [r \in RReqs |-> SampleBody]
    /\ bookings = {}
    /\ \E used \in SUBSET {UsedEarlier} : payments = used

NextLookups ==
    \/ BkStart(1)
    \/ BkCheckUsed(1)
    \/ BkVerify(1)
    \/ BkResolve(1)
    \/ BkLandlord(1)
    \/ BkGenerateReceipt(1)
    \/ \E p \in PReqs : PpStart(p)
    \/ \E p \in PReqs : PpCheckUsed(p)
    \/ \E p \in PReqs : PpVerify(p)
    \/ \E p \in PReqs : PpInsertProperty(p)
    \/ \E p \in PReqs : PpInsertRooms(p)
    \/ \E p \in PReqs : PpRecordPayment(p)

SpecLookups == LookupInit /\ [][NextLookups]_vars

\* Update requests in any interleaving, against a bookings collection that
\* is empty or holds SeedBooking.
UpdateInit ==
    /\ NoRequestStarted /\ AstraLoaded(TRUE) /\ ChatsIdle({})
    /\ rbody = [r \in RReqs |-> SampleBody]
    /\ payments = {}
    /\ \E seed \in {{}, {SeedBooking}} : bookings = seed

NextUpdates ==
    \/ \E u \in UReqs : UbStart(u)
    \/ \E u \in UReqs : UbFind(u)
    \/ \E u \in UReqs : UbPatch(u)

SpecUpdates == UpdateInit /\ [][NextUpdates]_vars

\* getCollection calls in any interleaving with the setup, with or without
\* the credentials in the environment.
AstraInit ==
    /\ NoRequestStarted /\ ChatsIdle({})
    /\ rbody = [r \in RReqs |-> SampleBody]
    /\ payments = {} /\ bookings = {}
    /\ \E env \in BOOLEAN : AstraLoaded(env)

NextAstra ==
    \/ \E g \in Callers : getCollection(g)
    \/ setupSettles
    \/ \E g \in Callers : ensureClientReady(g)
    \/ \E g \in Callers : ensureClientReadyJoined(g)
    \/ \E g \in Callers : GcHandle(g)

SpecAstra == AstraInit /\ [][NextAstra]_vars


\* ------------------------------------------------------------------ claims
NonPrivileged(b) == bref[b] # "none" /\ ~isCEO[b]

\* The request got as far as receipt generation: payment, room, property,
\* landlord and guest fields were all in order.
ReachedReceipt(b) ==
    \/ bpc[b] = "receipt"
    \/ Len(btrace[b]) > 0 /\ btrace[b][Len(btrace[b])] = "RECEIPT_GENERATION"

BookingOf(b) == {bk \in bookings : bk.booking_id = b}

\* C1: of two non-privileged booking requests carrying the same
\* gateway-verified reference, whatever their interleaving, exactly one ends
\* in success with a persisted booking and the other is rejected with
\* PAYMENT_USED; a reference never backs two persisted bookings.  (Requests
\* that end for another reason - validation, a missing room, a store or
\* gateway outage, a reference property creation used up - are left aside.)
C1_ExactlyOneRedeems ==
    \A b1, b2 \in BReqs :
        ( /\ b1 # b2
          /\ bpc[b1] = "done" /\ bpc[b2] = "done"
          /\ NonPrivileged(b1) /\ NonPrivileged(b2)
          /\ bref[b1] = bref[b2] /\ GatewayStatus(bref[b1]) = "success"
          /\ ReachedReceipt(b1) \/ bres[b1] = "PAYMENT_USED"
          /\ ReachedReceipt(b2) \/ bres[b2] = "PAYMENT_USED"
          /\ ~ \E pr \in payments : pr.reference = bref[b1] /\ pr.by[1] = "properties" )
        => /\ {bres[b1], bres[b2]} = {"SUCCESS", "PAYMENT_USED"}
           /\ Cardinality({bk \in bookings : bk.payment_reference = bref[b1]}) = 1

C3_ReceiptAfterPersist ==
    \A b \in BReqs : ReachedReceipt(b) => BookingOf(b) # {}

\* C4 (scenario A): a non-privileged request with a gateway-verified
\* reference, an existing room, property and landlord and no failing
\* collaborator ends in success with exactly one booking persisted, carrying
\* its receipt URL, the receipt PDF uploaded, the reference marked used and
\* both notification mails attempted.
C4_ScenarioA ==
    \A b \in BReqs :
        (bpc[b] = "done" /\ NonPrivileged(b) /\ ReachedReceipt(b)) =>
            /\ bres[b] = "SUCCESS"
            /\ Cardinality(BookingOf(b)) = 1
            /\ \A bk \in BookingOf(b) : bk.receipt_url \in {generatePublicUrl(k) : k \in objects}
            /\ \E pr \in payments : pr.reference = bref[b] /\ pr.status = "used"
            /\ {<<"bookings", b, "tenant">>, <<"bookings", b, "landlord">>} \subseteq mails

\* C5 (scenario B, as amended): when the local lookup of a non-privileged
\* request succeeds and the store holds a used record for its reference, the
\* request ends with PAYMENT_USED in that very step: the gateway is not called
\* and no store, no object and no mail is touched.
C5_UsedRejectedWithoutWrites ==
    [][\A b \in BReqs :
          ( /\ bpc[b] = "check" /\ bpc'[b] # "check"
            /\ bfault'[b] = bfault[b]
            /\ \E pr \in payments : pr.reference = bref[b] /\ pr.status = "used" )
          => /\ bpc'[b] = "done" /\ bres'[b] = "PAYMENT_USED"
             /\ <<"bookings", b>> \notin gwCalls'
             /\ UNCHANGED <<stores, effects>>]_vars

\* A request was rejected with PAYMENT_USED without the gateway being called.
C5_Witness ==
    \E b \in BReqs :
        /\ bpc[b] = "done" /\ bres[b] = "PAYMENT_USED"
        /\ <<"bookings", b>> \notin gwCalls
        /\ \E pr \in payments : pr.reference = bref[b] /\ pr.status = "used"

\* C5 as stated: every non-privileged request whose reference has a used
\* record leaves the used-check rejected with PAYMENT_USED.
C5_AsStated ==
    [][\A b \in BReqs :
          ( /\ bpc[b] = "check" /\ bpc'[b] # "check"
            /\ \E pr \in payments : pr.reference = bref[b] /\ pr.status = "used" )
          => bpc'[b] = "done" /\ bres'[b] = "PAYMENT_USED"]_vars

\* C6: every property has unit_available >= 0 and active = (unit_available > 0).
C6_InventoryCounter ==
    \A p \in properties : p.unit_available >= 0 /\ p.active = (p.unit_available > 0)

\* C7: a receipt request that starts after a request with the same
\* x-idempotency-key succeeded returns that request's receipt_id and
\* public_url and adds no second record for the key.
C7_SameKeySameReceipt ==
    \A r1, r2 \in RReqs :
        ( /\ r1 \in rprior[r2]
          /\ rkey[r1] = rkey[r2] /\ rkey[r2] # NoKey
          /\ rpc[r2] = "done" /\ rres[r2] = "SUCCESS" )
        => /\ rresp[r2] = rresp[r1]
           /\ Cardinality({rec \in receipts : rec.idempotency_key = rkey[r2]}) = 1

\* C8: the receipts store holds at most one record per non-null
\* idempotency_key.
C8_OneReceiptPerKey ==
    \A k \in IdempotencyKeys :
        Cardinality({rec \in receipts : rec.idempotency_key = k}) <= 1

\* C9: a request whose key already has a Receipt (saved by a request that
\* finished before it started) renders no QR code and no PDF, uploads no
\* object and writes no record.
C9_HitShortCircuits ==
    \A r1, r2 \in RReqs :
        (r1 \in rprior[r2] /\ rkey[r1] = rkey[r2] /\ rkey[r2] # NoKey) =>
            /\ rdid[r2] \cap {"qr", "pdf", "upload"} = {}
            /\ ObjectKey(r2) \notin objects
            /\ record(r2) \notin receipts

\* C10: every Receipt record carries the public_url of an object whose upload
\* completed, and a request that ended in QR_GENERATION_FAILED,
\* PDF_GENERATION_FAILED or GENERATION_FAILED left no Receipt record.
C10_NoReceiptWithoutArtifact ==
    /\ \A rec \in receipts : \E k \in objects : rec.public_url = generatePublicUrl(k)
    /\ \A r \in RReqs :
          rres[r] \in {"QR_GENERATION_FAILED", "PDF_GENERATION_FAILED", "GENERATION_FAILED"}
             => ~ \E rec \in receipts : rec.receipt_id = ReceiptId(r)

\* One request saved its Receipt after a retried upload, another one used up
\* every upload attempt and ended in GENERATION_FAILED.
C10_Witness ==
    \E r1, r2 \in RReqs :
        /\ rres[r1] = "SUCCESS" /\ record(r1) \in receipts /\ attempt[r1] > 0
        /\ rres[r2] = "GENERATION_FAILED" /\ attempt[r2] = UPLOAD_RETRY_ATTEMPTS

\* r2.uploadFile calls request r has made: the failed ones, which retryUpload
\* counts, and the one that succeeded.
UploadAttempts(r) == attempt[r] + (IF "upload" \in rdid[r] THEN 1 ELSE 0)

C12_ExhaustedUploadFails ==
    /\ [](\A r \in RReqs :
            /\ UploadAttempts(r) <= UPLOAD_RETRY_ATTEMPTS
            /\ attempt[r] = UPLOAD_RETRY_ATTEMPTS =>
                  /\ rpc[r] = "done" /\ rres[r] = "GENERATION_FAILED"
                  /\ ObjectKey(r) \notin objects
                  /\ ~ \E rec \in receipts : rec.receipt_id = ReceiptId(r))
    /\ [][\A r \in RReqs :
            (attempt[r] = UPLOAD_RETRY_ATTEMPTS - 1 /\ attempt'[r] = UPLOAD_RETRY_ATTEMPTS)
               => /\ rpc'[r] = "done" /\ rres'[r] = "GENERATION_FAILED"
                  /\ UNCHANGED <<stores, effects>>]_vars

\* A request made UPLOAD_RETRY_ATTEMPTS upload calls, all failed, and ended
\* in GENERATION_FAILED with the receipts store empty.
C12_Witness ==
    \E r \in RReqs :
        /\ attempt[r] = UPLOAD_RETRY_ATTEMPTS /\ rres[r] = "GENERATION_FAILED"
        /\ "upload" \notin rdid[r] /\ receipts = {}

\* The id the store would give the chat of request c, and what that request
\* has left in the two collections.
ChatOf(c) == {ch \in chats : ch.id = <<"chat", c>>}
MessagesOf(chatId) == {msg \in messages : msg.chatId = chatId}

\* The request passed validation, got both collections and made its insert
\* call.
CcTriedInsert(c) ==
    cpc[c] = "done" /\ cres[c] \notin {"BODY_PARSE_FAILED", "PAYLOAD_TOO_LARGE",
        "MISSING_TENANT", "MISSING_PARTICIPANTS", "INVALID_PARTICIPANTS",
        "INVALID_TYPE", "DB_CONNECTION_FAILED"}

PmTriedInsert(m) ==
    mpc[m] = "done" /\ mres[m] \notin {"UNAUTHENTICATED", "INVALID_CHAT_ID",
        "BODY_PARSE_FAILED", "INVALID_MESSAGE", "MESSAGE_TOO_LARGE",
        "DB_CONNECTION_FAILED", "DB_QUERY_FAILED", "CHAT_NOT_FOUND", "FORBIDDEN"}

\* C13 (scenario D): a createChat request with an initial message, whose chat
\* insert the store serves and whose message insert it rejects, ends with
\* MESSAGE_INSERT_FAILED and leaves no chat behind.
C13_ScenarioD ==
    \A c \in CReqs :
        (CcTriedInsert(c) /\ cinit[c] /\ cplan[c] = "messages.insert") =>
            cres[c] = "MESSAGE_INSERT_FAILED" /\ ChatOf(c) = {}

\* C14: in createChat and in postMessageToChat, a request whose secondary
\* write and whose compensating delete are both rejected by the store ends
\* with PARTIAL_FAILURE.
C14_PartialFailure ==
    /\ \A c \in CReqs :
          (CcTriedInsert(c) /\ cinit[c] /\ cplan[c] = "messages.insert+chats.delete")
             => cres[c] = "PARTIAL_FAILURE"
    /\ \A m \in MReqs :
          (PmTriedInsert(m) /\ mplan[m] = "chats.update+messages.delete")
             => mres[m] = "PARTIAL_FAILURE"

C16_NoOrphanMessage ==
    \A msg \in messages : \E ch \in chats : ch.id = msg.chatId

AmountParsed(r) ==
    rpc[r] # "idle" /\ rres[r] \notin {"UNAUTHORIZED", "INVALID_BODY", "MISSING_FIELDS"}

IsLegacy(body) ==
    /\ body.amount_value.t = "undefined"
    /\ body.amount.t = "string" /\ body.amount.s # <<>>

\* The part of a legacy string that stands for the number, and the currency
\* the string or, failing that, amount_currency names.
NumericPartOf(body) ==
    LET trimmed == trim(body.amount.s) IN
    IF tokenMatch(trimmed) THEN tokenRest(trimmed) ELSE trimmed

NamedCurrency(body) ==
    LET trimmed == trim(body.amount.s) IN
    IF tokenMatch(trimmed) THEN tokenCurrency(trimmed)
    ELSE IF currencyHintOf(body).t = "string" THEN toUpperCase(currencyHintOf(body).s)
    ELSE <<>>

\* A well-formed decimal: digits, optionally a dot and more digits, with
\* commas and blanks allowed as grouping separators.
WellFormedDecimal(str) ==
    LET ungrouped == SelectSeq(str, LAMBDA ch : ch \notin {",", " "}) IN
    /\ \A i \in DOMAIN ungrouped : IsDigit(ungrouped[i]) \/ ungrouped[i] = "."
    /\ isDecimal(ungrouped)

Malformed(body) ==
    \/ /\ IsLegacy(body)
       /\ \/ ~WellFormedDecimal(NumericPartOf(body))
          \/ NamedCurrency(body) # <<>> /\ NamedCurrency(body) \notin SUPPORTED_CURRENCIES
    \/ /\ body.amount_value.t # "undefined"
       /\ body.amount_currency.t = "string"
       /\ toUpperCase(body.amount_currency.s) \notin SUPPORTED_CURRENCIES

\* C18: a request whose legacy amount string has a numeric part that is not a
\* well-formed decimal, or whose amount names an unsupported currency, ends
\* with INVALID_AMOUNT, having rendered, uploaded and stored nothing.
C18_MalformedRejected ==
    \A r \in RReqs :
        (AmountParsed(r) /\ Malformed(rbody[r])) =>
            /\ rpc[r] = "done" /\ rres[r] = "INVALID_AMOUNT"
            /\ rdid[r] = {} /\ ObjectKey(r) \notin objects
            /\ ~ \E rec \in receipts : rec.receipt_id = ReceiptId(r)

\* C19: "KES 2,500.00" normalizes to 250000 KES, and every accepted legacy
\* string gives an amount_value and amount_currency that the explicit path
\* takes back unchanged, with the same amount_display.
C19_RoundTrip ==
    \A r \in RReqs :
        (AmountParsed(r) /\ IsLegacy(rbody[r])) =>
            LET n == normalizedAmount[r]
                back == Body(Number(FALSE, n.amount_value, FALSE),
                             String(n.amount_currency), Undefined)
            IN  /\ rbody[r] = SampleBody =>
                      /\ n.ok /\ n.amount_value = <<2,5,0,0,0,0>>
                      /\ n.amount_currency = <<"K","E","S">>
                      /\ n.amount_display =
                            <<"K","E","S","U+00A0","2",",","5","0","0",".","0","0">>
                /\ n.ok => parseAndNormalizeAmount(back, currencyHintOf(back)) = n

\* "KES 2,500.00" was normalized and its Receipt stored with amount_value
\* 250000.
C19_Witness ==
    \E r \in RReqs :
        /\ rbody[r] = SampleBody /\ rres[r] = "SUCCESS"
        /\ \E rec \in receipts :
              rec.receipt_id = ReceiptId(r) /\ rec.amount_value = <<2,5,0,0,0,0>>

\* C20: the amount_value of every accepted amount, and so of every Receipt,
\* is a non-negative integer: on the explicit path the integer the body
\* gave, on the legacy path the integer part times 100 plus the first two
\* fraction digits.
C20_IntegerMinorUnits ==
    \A r \in RReqs :
        (AmountParsed(r) /\ normalizedAmount[r].ok) =>
            LET body == rbody[r]
                numeric == stripNonNumeric(NumericPartOf(body))
            IN  IF body.amount_value.t # "undefined"
                THEN /\ body.amount_value.t = "number"
                     /\ ~body.amount_value.neg /\ ~body.amount_value.fractional
                     /\ normalizedAmount[r].amount_value = body.amount_value.digits
                ELSE normalizedAmount[r].amount_value =
                        DigitsOf(integerPart(numeric) \o fractionPart(numeric))

\* C21: the notification mails of a booking run are dispatched only once the
\* run's writes have been joined, so that its booking is in the store, and
\* the step that dispatches them changes no store and no answer.
C21_MailsOnlyAfterWrites ==
    \A b \in BReqs : \A kind \in {"tenant", "landlord"} :
        <<"bookings", b, kind>> \in mails => BookingOf(b) # {}

\* C22: a booking run whose receipt generation failed has its booking in the
\* store all the same (without a receipt link): the failure never leaves the
\* paid booking absent.
C22_ReceiptFailureKeepsBooking ==
    \A b \in BReqs :
        ( /\ bpc[b] = "done" /\ bres[b] = "BOOKING_CREATION_FAILED"
          /\ Len(btrace[b]) > 0 /\ btrace[b][Len(btrace[b])] = "RECEIPT_GENERATION" )
        => \E bk \in BookingOf(b) : bk.payment_reference = bref[b]

\* GET /receipts/verify/:receipt_identifier with the store reachable: the
\* identifier must start with "RCT-" (or be a 6 to 12 digit receipt number,
\* which no id of the model is), and a Receipt record must carry it.
verify(identifier) ==
    IF identifier[1] # "RCT" THEN "INVALID_IDENTIFIER"
    ELSE IF \E receipt \in receipts : receipt.receipt_id = identifier THEN "verified"
    ELSE "RECEIPT_NOT_FOUND"

\* C23: Booking and Receipt exist only together: every Booking has a Receipt
\* record with its receipt_id, which the verification lookup resolves, and
\* every Receipt record belongs to a Booking.
C23_CreatedTogether ==
    /\ \A bk \in bookings : verify(bk.receipt_id) = "verified"
    /\ \A receipt \in receipts : \E bk \in bookings : bk.receipt_id = receipt.receipt_id

\* C24: no step changes a field of a persisted Booking other than
\* receipt_url, and no step removes a Booking.
C24_BookingImmutable ==
    [][\A bk \in bookings :
          \E after \in bookings' :
             /\ after.booking_id = bk.booking_id
             /\ \A f \in DOMAIN bk \ {"receipt_url"} :
                   f \in DOMAIN after /\ after[f] = bk[f]]_vars

\* C25: the step that answers a booking request with BOOKING_CREATION_FAILED
\* undoes nothing: every document the stores held before it is still there.
C25_FailureUndoesNothing ==
    [][\A b \in BReqs :
          (bpc[b] # "done" /\ bpc'[b] = "done" /\ bres'[b] = "BOOKING_CREATION_FAILED")
          => /\ payments \subseteq payments' /\ bookings \subseteq bookings'
             /\ rooms \subseteq rooms' /\ properties \subseteq properties']_vars

\* The answers of a booking request that failed at the gateway or at the
\* room, property or landlord lookup.
UpstreamFailures ==
    {"PAYMENT_FAILED", "PAYMENT_REFERENCE_NOT_FOUND", "BOOKING_CREATION_FAILED",
     "ROOM_OR_PROPERTY_NOT_FOUND", "LANDLORD_NOT_FOUND"}

\* C26: a booking request that fails during payment verification or during
\* the room, property and landlord lookups writes nothing - none of its steps
\* up to and including the failing one touches a store, an object or a mail -
\* and it is terminal: its answer stands and the run takes no further step.
C26_UpstreamFailureWritesNothing ==
    [][\A b \in BReqs :
          /\ (bpc[b] \in {"idle", "check", "verify", "resolve", "landlord"} /\ bpc'[b] # bpc[b])
                => UNCHANGED <<stores, objects, mails>>
          /\ (bpc[b] \in {"verify", "resolve", "landlord"} /\ bres'[b] \in UpstreamFailures)
                => bpc'[b] = "done"
          /\ bpc[b] = "done" => (bpc'[b] = "done" /\ bres'[b] = bres[b])]_vars

\* With rooms and properties in the store, one request was verified by the
\* gateway and then found no landlord, another was turned down by the gateway.
C26_Witness ==
    \E b1, b2 \in BReqs :
        /\ bres[b1] = "LANDLORD_NOT_FOUND" /\ paymentData[b1] = "success"
        /\ bres[b2] \in {"PAYMENT_FAILED", "PAYMENT_REFERENCE_NOT_FOUND"}
        /\ rooms # {} /\ properties # {} /\ bookings = {}
        /\ \A r \in rooms : r.active

UsedLocally(ref) == \E pr \in payments : pr.reference = ref /\ pr.status = "used"

\* C27: the local payment lookup is fail-open in both handlers.  A request
\* leaves the used-check either for the gateway verify or rejected as used,
\* and it is rejected only when a local record says `used`: a failed lookup
\* (bfault for bookings) goes on to the gateway.  The gateway's answer then
\* decides alone: a request leaves verify onwards exactly when the gateway
\* was reached and reports success, whatever the payments collection holds.
C27_LookupFailOpen ==
    [][/\ \A b \in BReqs :
            /\ (bpc[b] = "check" /\ bpc'[b] # "check") =>
                  \/ bpc'[b] = "verify"
                  \/ bpc'[b] = "done" /\ bres'[b] = "PAYMENT_USED"
                        /\ UsedLocally(bref[b]) /\ ~bfault'[b]
            /\ (bpc[b] = "check" /\ bfault'[b]) => bpc'[b] = "verify"
            /\ (bpc[b] = "verify" /\ bpc'[b] # "verify") =>
                  \/ bpc'[b] = "resolve" /\ GatewayStatus(bref[b]) = "success"
                  \/ bpc'[b] = "done" /\ bres'[b] \in {"PAYMENT_FAILED",
                        "PAYMENT_REFERENCE_NOT_FOUND", "BOOKING_CREATION_FAILED"}
       /\ \A p \in PReqs :
            /\ (ppc[p] = "check" /\ ppc'[p] # "check") =>
                  \/ ppc'[p] = "verify"
                  \/ ppc'[p] = "done" /\ pres'[p] = "PAYMENT_ALREADY_USED"
                        /\ UsedLocally(pref[p])
            /\ (ppc[p] = "verify" /\ ppc'[p] # "verify") =>
                  \/ ppc'[p] = "insert" /\ GatewayStatus(pref[p]) = "success"
                  \/ ppc'[p] = "done" /\ pres'[p] \in {"PAYMENT_VERIFICATION_FAILED",
                        "PAYMENT_VERIFICATION_ERROR"}]_vars

\* PAY-1 had a used record before either request started; the booking
\* request's lookup failed and the gateway verified it, and a property
\* request with PAY-1 got past its lookup too and was verified.
C27_Witness ==
    /\ UsedEarlier \in payments
    /\ \E b \in BReqs : bfault[b] /\ bref[b] = "PAY-1" /\ paymentData[b] = "success"
    /\ \E p \in PReqs : pref[p] = "PAY-1" /\ ~pceo[p] /\ ppaid[p]

\* The run passed the room and property lookup and every step after it up
\* to receipt generation, and has ended.
PassedReadCheck(b) ==
    /\ bpc[b] = "done"
    /\ Len(btrace[b]) > 0 /\ btrace[b][Len(btrace[b])] = "RECEIPT_GENERATION"

\* C28: when two booking requests against the one room of a property with
\* unit_available = 1 have both passed the read of room and property before
\* either has written, both persist a booking: the room is over-booked.
C28_RaceOverbooks ==
    \A b1, b2 \in BReqs :
        ( /\ b1 # b2 /\ PassedReadCheck(b1) /\ PassedReadCheck(b2)
          /\ Cardinality(rooms) = 1
          /\ \A p \in properties : p.unit_available = 1 )
        => BookingOf(b1) # {} /\ BookingOf(b2) # {}

\* C29: no room has more than one persisted booking, and a property has no
\* more persisted bookings than the unit_available it was created with.
C29_NoOverbooking ==
    /\ \A room \in rooms :
          Cardinality({bk \in bookings : bk.room_id = room.room_id}) <= 1
    /\ \A p \in properties :
          Cardinality({bk \in bookings : bk.room_id[1] = p.property_id})
             <= pnrooms[p.property_id]

\* C30: once the setup has failed no caller holds a handle: every finished
\* getCollection call with a name threw the setup error, whether it came
\* before, during or after the setup.
C30_NoHandleAfterFailedSetup ==
    \A g \in Callers :
        (setupError /\ gpc[g] = "done" /\ gname[g] # "") => gres[g] = "setupError"

\* The stores SpecBookings starts from are states of Spec: TLC reaches both
\* of these under Spec (as invariants, their negations are violated).
StoresAfterPaidCreation == AfterCreation(TRUE) /\ \A b \in BReqs : bpc[b] = "idle"
StoresAfterCeoCreation == AfterCreation(FALSE) /\ \A b \in BReqs : bpc[b] = "idle"

====
